---- MODULE Spec2Model ----
(***************************************************************************)
(* go-notifier: the dispatcher (ContentNotifier.Notify) that fans one      *)
(* extracted message out to the registered Notifiers, and the tracker      *)
(* adapter (BacklogNotifier) operations it and the CLI call.               *)
(*                                                                         *)
(* Strings are sequences of one-character strings.  The transport, the     *)
(* extractor and the tracker are collaborators: their answers are inputs   *)
(* drawn with \E at the call sites.                                        *)
(***************************************************************************)
EXTENDS Integers, Sequences, FiniteSets, TLC

VARIABLES
    Notifiers,          \* ContentNotifier.Notifiers: <<[kind, reg]>>
    pc,                 \* position of the running operation
    i,                  \* 1-based position of the range loop in Notify
    extractErr,         \* Notify local err: FetchAndExtractText failed
    text,               \* text returned by the extractor
    summary,            \* Notify local
    description,        \* Notify local
    backlogProjectID,   \* Notify argument
    issueTypeID,        \* Notify argument
    priorityID,         \* Notify argument
    ctxDone,            \* the caller's ctx has been cancelled / timed out
    allErrors,          \* Notify local: the collected per-notifier errors
    trace,              \* history: method calls made on the notifiers
    requests,           \* history: requests handed to the HTTP transport
    ret,                \* value returned by the operation
    baseURL,            \* BacklogNotifier.baseURL
    answer              \* what the tracker / transport answered last

vars == <<Notifiers, pc, i, extractErr, text, summary, description, backlogProjectID,
          issueTypeID, priorityID, ctxDone, allErrors, trace, requests, ret,
          baseURL, answer>>

----------------------------------------------------------------------------
(* Bounds *)

MaxNotifiers == 2
MaxCtorArgs == 1
MaxList == 2
MaxText == 2
MaxURL == 4
MaxMarks == 1
MaxSplit == 3
Near == 3

----------------------------------------------------------------------------
(* Value domains *)

NL == "\n"
Emoji == "E"
Chars == {"a", NL}

RECURSIVE SeqsUpTo(_, _)
SeqsUpTo(S, n) ==
    IF n = 0 THEN {<<>>}
    ELSE LET shorter == SeqsUpTo(S, n - 1)
         IN  shorter \cup {Append(s, c) : s \in {t \in shorter : Len(t) = n - 1}, c \in S}

Texts == SeqsUpTo(Chars, MaxText)

\* extracted texts with white space in them
Space == " "
SplitTexts == SeqsUpTo({"a", Space, NL}, MaxSplit)

Kinds == {"slack", "backlog", "mock"}

ProjectIDs == {-1, 0, 1}
AttrIDs == {0, 1}
CallerIDs == {-1, 0, 1}

NoRet == [kind |-> "none", errors |-> <<>>]

\* the labels getFirstIssueAttributes prefers (a task issue type, a medium priority)
TaskName == "TASK"
MediumName == "MEDIUM"

\* what the tracker may answer to a list query
TrackerIDs == {0, 1, 2}
Names == {TaskName, MediumName}
Entries == [id : TrackerIDs, name : Names]
Answers ==
    {[kind |-> "fetchErr", list |-> <<>>], [kind |-> "parseErr", list |-> <<>>]}
    \cup {[kind |-> "list", list |-> l] : l \in SeqsUpTo(Entries, MaxList)}

\* summaries and descriptions handed to the tracker adapter
Strings == SeqsUpTo({"a", Emoji}, MaxText)

\* descriptions handed to SendIssue: none, and one with an emoji in it
Descriptions == {<<>>, <<"a", Emoji>>}

NoAnswer == [kind |-> "none"]

\* space URLs: a host character, a slash, and the API version path as one token
Slash == "/"
ApiV2 == "/api/v2"
SpaceURLs == SeqsUpTo({"h", Slash, ApiV2}, MaxURL)
ApiKeys == {<<>>, <<"k">>}

\* project keys and issue keys given on the command line
Keys == {<<>>, <<"K">>}

\* the id of the project the tracker answers with
ProjectRespIDs == {-1} \cup TrackerIDs

\* statuses the tracker may answer a POST with
Statuses == {200, 201, 300, 404, 500}

\* what HandleLimitedResponse reads from an error response: text that is not
\* JSON, an object without errors, an object with one or two errors
ErrorEntryOf(code, message) == [code |-> code, message |-> message]
NoBody == [raw |-> "", parses |-> FALSE, errors |-> <<>>]
Bodies ==
    {[raw |-> "text", parses |-> FALSE, errors |-> <<>>],
     [raw |-> "{}", parses |-> TRUE, errors |-> <<>>],
     [raw |-> "{e1}", parses |-> TRUE, errors |-> <<ErrorEntryOf(1, "m1")>>],
     [raw |-> "{e2,e1}", parses |-> TRUE,
      errors |-> <<ErrorEntryOf(2, "m2"), ErrorEntryOf(1, "m1")>>]}

----------------------------------------------------------------------------
(* strings.SplitN(text, "\n", 2) and the summary / description locals *)

RECURSIVE Index(_, _, _)
Index(s, c, k) ==
    IF k > Len(s) THEN 0
    ELSE IF s[k] = c THEN k
    ELSE Index(s, c, k + 1)

\* strings.TrimSpace
RECURSIVE TrimSpace(_)
TrimSpace(s) ==
    IF s = <<>> THEN s
    ELSE IF Head(s) \in {Space, NL} THEN TrimSpace(Tail(s))
    ELSE IF s[Len(s)] \in {Space, NL} THEN TrimSpace(SubSeq(s, 1, Len(s) - 1))
    ELSE s

\* variant: both parts are trimmed, as the backlog command does with its message
SplitN2Trimmed(s) ==
    LET k == Index(s, NL, 1)
    IN  IF k = 0 THEN <<TrimSpace(s)>>
        ELSE <<TrimSpace(SubSeq(s, 1, k - 1)), TrimSpace(SubSeq(s, k + 1, Len(s)))>>

SplitN2(s) ==
    LET k == Index(s, NL, 1)
    IN  IF k = 0 THEN <<s>>
        ELSE <<SubSeq(s, 1, k - 1), SubSeq(s, k + 1, Len(s))>>

SummaryOf(t) == SplitN2(t)[1]

\* variant: a text of one line has no description, as in the backlog command
DescriptionOfEmpty(t) ==
    LET lines == SplitN2(t)
    IN  IF Len(lines) > 1 THEN lines[2] ELSE <<>>

DescriptionOf(t) ==
    LET lines == SplitN2(t)
    IN  IF Len(lines) > 1 THEN lines[2] ELSE lines[1]

----------------------------------------------------------------------------
(* gomoji.RemoveEmojis, as used by cleanStringFromEmojis *)

RECURSIVE cleanStringFromEmojis(_)
cleanStringFromEmojis(s) ==
    IF s = <<>> THEN <<>>
    ELSE IF Head(s) = Emoji THEN cleanStringFromEmojis(Tail(s))
    ELSE <<Head(s)>> \o cleanStringFromEmojis(Tail(s))

----------------------------------------------------------------------------
(* The HTTP transport (client.Do / PostJSONAndFetchBytes): what it may     *)
(* answer to one request.  A request made with an already cancelled ctx    *)
(* fails with the context error; one cancelled in flight may go either way *)

Response(neterr, status) == [neterr |-> neterr, status |-> status]

Do(cancelledAtCall, cancelledNow) ==
    IF cancelledAtCall THEN {Response("canceled", 0)}
    ELSE {Response("none", 200), Response("none", 404), Response("transport", 0)}
         \cup (IF cancelledNow THEN {Response("canceled", 0)} ELSE {})

Is2xx(status) == status >= 200 /\ status < 300

Result(reqs, err) == [reqs |-> reqs, err |-> err]

----------------------------------------------------------------------------
(* BacklogNotifier *)

\* strings.TrimRight(s, c)
RECURSIVE TrimRight(_, _)
TrimRight(s, c) ==
    IF s # <<>> /\ s[Len(s)] = c THEN TrimRight(SubSeq(s, 1, Len(s) - 1), c)
    ELSE s

\* strings.TrimSuffix(s, suffix)
TrimSuffix(s, suffix) ==
    IF Len(s) >= Len(suffix) /\ SubSeq(s, Len(s) - Len(suffix) + 1, Len(s)) = suffix
    THEN SubSeq(s, 1, Len(s) - Len(suffix))
    ELSE s

\* NewBacklogNotifier: spaceURL == "" || apiKey == ""
\* variant: only the space URL is required
ConfigMissingURLOnly(spaceURL, apiKey) == spaceURL = <<>>

ConfigMissing(spaceURL, apiKey) == spaceURL = <<>> \/ apiKey = <<>>

\* variant: /api/v2 is appended to the space URL as given
BaseURLOfAppend(spaceURL) == spaceURL \o <<ApiV2>>

\* variant: the version path is appended without stripping an existing one
BaseURLOfNoStrip(spaceURL) == TrimRight(spaceURL, Slash) \o <<ApiV2>>

\* NewBacklogNotifier: the baseURL it stores
BaseURLOf(spaceURL) ==
    TrimSuffix(TrimRight(spaceURL, Slash), <<ApiV2>>) \o <<ApiV2>>

\* the notifier the commands work with
DefaultBaseURL == BaseURLOf(<<"h">>)

\* postRequest: the request it builds
PostRequestOf(endpoint, body) ==
    [method |-> "POST", endpoint |-> endpoint, arg |-> 0, body |-> body,
     apiKeyInHeader |-> TRUE, apiKeyInURL |-> TRUE]

\* postRequest of the six-argument SendIssue: the API key is set in the header only
PostRequestHeaderOnly(endpoint, body) ==
    [method |-> "POST", endpoint |-> endpoint, arg |-> 0, body |-> body,
     apiKeyInHeader |-> TRUE, apiKeyInURL |-> FALSE]

\* PostComment: the request for /issues/{issueIdOrKey}/comments
CommentRequestOf(issueID, body) ==
    [PostRequestOf("/issues/:key/comments", body) EXCEPT !.arg = issueID]

\* postRequest: the error it returns for the transport's answer
postRequest(resp) ==
    IF resp.neterr # "none" THEN resp.neterr
    ELSE IF Is2xx(resp.status) THEN "nil"
    ELSE "BacklogError"

\* variant: the last reported error is taken instead of the first
BacklogErrorOfLast(status, body) ==
    IF body.parses /\ Len(body.errors) > 0
    THEN [StatusCode |-> status, Code |-> body.errors[Len(body.errors)].code,
          Message |-> body.errors[Len(body.errors)].message]
    ELSE [StatusCode |-> status, Code |-> 0, Message |-> body.raw]

\* postRequest: the BacklogError built from a non-2xx response
BacklogErrorOf(status, body) ==
    IF body.parses /\ Len(body.errors) > 0
    THEN [StatusCode |-> status, Code |-> body.errors[1].code,
          Message |-> body.errors[1].message]
    ELSE [StatusCode |-> status, Code |-> 0, Message |-> body.raw]

BacklogIssuePayload(projectID, s, d, it, pr) ==
    [projectId |-> projectID, summary |-> s, description |-> d,
     issueTypeId |-> it, priorityId |-> pr]

\* SendIssue(ctx, summary, description, projectID, issueTypeID, priorityID)
Backlog_SendIssueWithIDs(s, d, projectID, it, pr, resp) ==
    LET issueData == BacklogIssuePayload(projectID, cleanStringFromEmojis(s),
                                         cleanStringFromEmojis(d), it, pr)
    IN  Result(<<PostRequestHeaderOnly("/issues", issueData)>>, postRequest(resp))

\* the request FetchBytes is given: the API key travels in the URL
GetRequestOf(endpoint, arg) ==
    [method |-> "GET", endpoint |-> endpoint, arg |-> arg, body |-> <<>>,
     apiKeyInHeader |-> FALSE, apiKeyInURL |-> TRUE]

\* getFirstIssueAttributes: the preferred name, else the first entry; 0 when none
FirstNamed(list, name) ==
    LET hits == {k \in DOMAIN list : list[k].name = name}
    IN  IF hits = {} THEN 0
        ELSE list[CHOOSE k \in hits : \A m \in hits : k <= m].id

\* variant: the first entry is taken whatever its name
FoundIDFirstOnly(list, name) == IF Len(list) > 0 THEN list[1].id ELSE 0

FoundID(list, name) ==
    IF FirstNamed(list, name) = 0 /\ Len(list) > 0 THEN list[1].id
    ELSE FirstNamed(list, name)

\* variant: a failed issue type query is not noticed
IssueTypeErrorIgnored(ans) == "nil"

\* getFirstIssueAttributes, issue types: the error it returns for the tracker's answer
IssueTypeError(ans) ==
    IF ans.kind = "fetchErr" THEN "issueTypes-fetch"
    ELSE IF ans.kind = "parseErr" THEN "issueTypes-parse"
    ELSE IF FoundID(ans.list, TaskName) = 0 THEN "issueTypes-notfound"
    ELSE "nil"

\* getFirstIssueAttributes, priorities: the error it returns for the tracker's answer
PriorityError(ans) ==
    IF ans.kind = "fetchErr" THEN "priorities-fetch"
    ELSE IF ans.kind = "parseErr" THEN "priorities-parse"
    ELSE IF FoundID(ans.list, MediumName) = 0 THEN "priorities-notfound"
    ELSE "nil"

\* GetProjectID: projectKey == ""
ProjectKeyEmpty(projectKey) == projectKey = <<>>

\* variant: the id of the answer is returned unchecked
ProjectErrorUnchecked(ans) ==
    IF ans.kind = "fetchErr" THEN "project-fetch"
    ELSE IF ans.kind = "parseErr" THEN "project-parse"
    ELSE "nil"

\* GetProjectID: the error it returns for the tracker's answer
ProjectError(ans) ==
    IF ans.kind = "fetchErr" THEN "project-fetch"
    ELSE IF ans.kind = "parseErr" THEN "project-parse"
    ELSE IF ans.id = 0 THEN "project-noid"
    ELSE "nil"

\* variant: the message is registered as an issue
Backlog_SendTextAsIssue(message) ==
    Result(<<PostRequestOf("/issues", BacklogIssuePayload(1, message, <<>>, 1, 1))>>, "nil")

\* SendText(ctx, message)
Backlog_SendText(message) ==
    Result(<<>>, "unsupported")

\* SendTextWithHeader(ctx, headerText, message)
Backlog_SendTextWithHeader(headerText, message) ==
    Result(<<>>, "unsupported")

\* variant: an empty issue key is posted to /issues//comments
IssueKeyEmptyAccepted(issueID) == FALSE

\* PostComment: issueID == ""
IssueKeyEmpty(issueID) == issueID = <<>>

----------------------------------------------------------------------------
(* SlackNotifier *)

IssueHeaderPrefix == <<"[ISSUE]">>

\* variant: a failed POST is sent once more
Slack_SendTextWithHeaderRetry(headerText, message, resp) ==
    LET req == [method |-> "POST", endpoint |-> "webhook",
                body |-> [text |-> headerText, message |-> message]]
        err == IF resp.neterr # "none" THEN resp.neterr
               ELSE IF Is2xx(resp.status) THEN "nil"
               ELSE "http"
    IN  Result(IF err = "nil" THEN <<req>> ELSE <<req, req>>, err)

\* SendTextWithHeader(ctx, headerText, message)
Slack_SendTextWithHeader(headerText, message, resp) ==
    Result(<<[method |-> "POST", endpoint |-> "webhook",
              body |-> [text |-> headerText, message |-> message]]>>,
           IF resp.neterr # "none" THEN resp.neterr
           ELSE IF Is2xx(resp.status) THEN "nil"
           ELSE "http")

\* variant: the ticket attributes are validated as a tracker would
Slack_SendIssueValidated(s, d, projectID, it, pr, resp) ==
    IF projectID <= 0 \/ it = 0 \/ pr = 0 THEN Result(<<>>, "invalid-ids")
    ELSE Slack_SendTextWithHeader(IssueHeaderPrefix \o s, d, resp)

\* SendIssue(ctx, summary, description, projectID, issueTypeID, priorityID)
Slack_SendIssue(s, d, projectID, it, pr, resp) ==
    Slack_SendTextWithHeader(IssueHeaderPrefix \o s, d, resp)

----------------------------------------------------------------------------
(* MockNotifier *)

Mock_SendTextWithHeader(headerText, message) == Result(<<>>, "nil")

Mock_SendIssue(s, d, projectID, it, pr) == Result(<<>>, "nil")

----------------------------------------------------------------------------
(* ContentNotifier *)

Adapter(kind, reg) == [kind |-> kind, reg |-> reg]

\* NewContentNotifier(extractor, notifiers...): the variadic arguments, in order
NewContentNotifier(kinds) == [k \in 1..Len(kinds) |-> Adapter(kinds[k], k)]

\* variant: the new notifier is put in front of the list
RegisteredInFront(list, n) == <<n>> \o list

\* AddNotifier: c.Notifiers = append(c.Notifiers, n)
Registered(list, n) == Append(list, n)

\* variant: the loop walks the list backwards
RangeIndexReversed(k, len) == len + 1 - k

\* for _, n := range c.Notifiers: the element visited by the k-th iteration
RangeIndex(k, len) == k

\* variant: the extraction error is ignored
ExtractFailedIgnored(ok) == FALSE

\* if err != nil { return fmt.Errorf(...) } after FetchAndExtractText
ExtractFailed(ok) == ~ok

\* variant: every notifier gets the header+text delivery
RouteTextOnly(projectID) == "SendTextWithHeader"

\* if backlogProjectID != 0 { SendIssue } else { SendTextWithHeader }
Route(projectID) == IF projectID # 0 THEN "SendIssue" ELSE "SendTextWithHeader"

\* the *BacklogNotifier type assertion and its issueTypeID / priorityID check
RejectsIDs(n, projectID, it, pr) ==
    /\ projectID # 0
    /\ n.kind = "backlog"
    /\ (it = 0 \/ pr = 0)

\* n.SendIssue(...) / n.SendTextWithHeader(...) through the Notifier interface
Invoke(n, op, s, d, projectID, it, pr, resp) ==
    IF op = "SendIssue"
    THEN CASE n.kind = "slack"   -> Slack_SendIssue(s, d, projectID, it, pr, resp)
           [] n.kind = "backlog" -> Backlog_SendIssueWithIDs(s, d, projectID, it, pr, resp)
           [] n.kind = "mock"    -> Mock_SendIssue(s, d, projectID, it, pr)
    ELSE CASE n.kind = "slack"   -> Slack_SendTextWithHeader(s, d, resp)
           [] n.kind = "backlog" -> Backlog_SendTextWithHeader(s, d)
           [] n.kind = "mock"    -> Mock_SendTextWithHeader(s, d)

ErrorEntry(n, err, form) == [reg |-> n.reg, kind |-> n.kind, err |-> err, form |-> form]

\* variant: the newest error is put first
CollectInFront(errs, e) == <<e>> \o errs

\* allErrors = append(allErrors, ...)
Collect(errs, e) == Append(errs, e)

\* variant: the loop is left at the first failing notifier
NextIterationBreak(k, err, len) == IF err # "nil" THEN len + 1 ELSE k + 1

\* the loop goes on to the next notifier whatever notifyErr was
NextIteration(k, err, len) == k + 1

\* variant: the joined error is returned without asking whether there is any
NotifyResultAlways(errs) == [kind |-> "aggregate", errors |-> errs]

\* variant: the collected errors are only logged and nil is returned
NotifyResultNil(errs) == [kind |-> "nil", errors |-> <<>>]

\* if len(allErrors) > 0 { return fmt.Errorf(joined messages) }; return nil
NotifyResult(errs) ==
    IF Len(errs) > 0 THEN [kind |-> "aggregate", errors |-> errs]
    ELSE [kind |-> "nil", errors |-> <<>>]

Event(ev, n, op, a1, a2, ids, cancelled, err) ==
    [ev |-> ev, reg |-> n.reg, kind |-> n.kind, op |-> op, a1 |-> a1, a2 |-> a2,
     ids |-> ids, cancelled |-> cancelled, err |-> err]

Current == Notifiers[RangeIndex(i, Len(Notifiers))]

Init ==
    /\ \E kinds \in SeqsUpTo(Kinds, MaxCtorArgs) : Notifiers = NewContentNotifier(kinds)
    /\ pc = "idle"
    /\ i = 0
    /\ extractErr = FALSE
    /\ text = <<>>
    /\ summary = <<>>
    /\ description = <<>>
    /\ backlogProjectID = 0
    /\ issueTypeID = 0
    /\ priorityID = 0
    /\ ctxDone = FALSE
    /\ allErrors = <<>>
    /\ trace = <<>>
    /\ requests = <<>>
    /\ ret = NoRet
    /\ baseURL = DefaultBaseURL
    /\ answer = NoAnswer

AddNotifier(kind) ==
    /\ pc = "idle"
    /\ Len(Notifiers) < MaxNotifiers
    /\ Notifiers' = Registered(Notifiers, Adapter(kind, Len(Notifiers) + 1))
    /\ UNCHANGED <<pc, i, extractErr, text, summary, description, backlogProjectID, issueTypeID,
                   priorityID, ctxDone, allErrors, trace, requests, ret>>
    /\ UNCHANGED <<baseURL, answer>>

\* Notify, from its entry to the head of the range loop
Notify(t, ok, projectID, it, pr) ==
    /\ pc = "idle"
    /\ backlogProjectID' = projectID
    /\ issueTypeID' = it
    /\ priorityID' = pr
    /\ ctxDone' = FALSE
    /\ allErrors' = <<>>
    /\ trace' = <<>>
    /\ requests' = <<>>
    /\ i' = 1
    /\ extractErr' = ~ok
    /\ IF ExtractFailed(ok)
       THEN /\ text' = <<>>
            /\ summary' = <<>>
            /\ description' = <<>>
            /\ ret' = [kind |-> "extract", errors |-> <<>>]
            /\ pc' = "done"
       ELSE /\ text' = t
            /\ summary' = SummaryOf(t)
            /\ description' = DescriptionOf(t)
            /\ ret' = NoRet
            /\ pc' = "loop"
    /\ UNCHANGED Notifiers
    /\ UNCHANGED <<baseURL, answer>>

\* the caller's deadline fires / the caller cancels ctx while Notify runs
Cancel ==
    /\ pc \in {"loop", "sending"}
    /\ ~ctxDone
    /\ ctxDone' = TRUE
    /\ UNCHANGED <<Notifiers, pc, i, extractErr, text, summary, description, backlogProjectID,
                   issueTypeID, priorityID, allErrors, trace, requests, ret>>
    /\ UNCHANGED <<baseURL, answer>>

\* loop body, BacklogNotifier with a zero issueTypeID / priorityID: record and continue
RejectIDs ==
    /\ pc = "loop"
    /\ i <= Len(Notifiers)
    /\ RejectsIDs(Current, backlogProjectID, issueTypeID, priorityID)
    /\ allErrors' = Collect(allErrors, ErrorEntry(Current, "invalid-ids", "rejected"))
    /\ trace' = Append(trace, Event("reject", Current, "none", <<>>, <<>>, <<>>,
                                    ctxDone, "invalid-ids"))
    /\ i' = i + 1
    /\ UNCHANGED <<Notifiers, pc, extractErr, text, summary, description, backlogProjectID,
                   issueTypeID, priorityID, ctxDone, requests, ret>>
    /\ UNCHANGED <<baseURL, answer>>

\* loop body: the send method is called on the notifier
SendCall ==
    /\ pc = "loop"
    /\ i <= Len(Notifiers)
    /\ ~RejectsIDs(Current, backlogProjectID, issueTypeID, priorityID)
    /\ trace' = Append(trace,
                       Event("call", Current, Route(backlogProjectID), summary, description,
                             IF Route(backlogProjectID) = "SendIssue"
                             THEN <<backlogProjectID, issueTypeID, priorityID>> ELSE <<>>,
                             ctxDone, "pending"))
    /\ pc' = "sending"
    /\ UNCHANGED <<Notifiers, i, extractErr, text, summary, description, backlogProjectID,
                   issueTypeID, priorityID, ctxDone, allErrors, requests, ret>>
    /\ UNCHANGED <<baseURL, answer>>

\* loop body: the send method returns notifyErr, which is recorded when non-nil
SendReturn ==
    /\ pc = "sending"
    /\ LET call == trace[Len(trace)]
       IN  \E resp \in Do(call.cancelled, ctxDone) :
             LET r == Invoke(Current, call.op, summary, description,
                             backlogProjectID, issueTypeID, priorityID, resp)
             IN  /\ requests' = requests \o r.reqs
                 /\ trace' = Append(trace, Event("return", Current, call.op, <<>>, <<>>,
                                                 <<>>, ctxDone, r.err))
                 /\ allErrors' = IF r.err # "nil"
                                 THEN Collect(allErrors, ErrorEntry(Current, r.err, "failed"))
                                 ELSE allErrors
                 /\ i' = NextIteration(i, r.err, Len(Notifiers))
    /\ pc' = "loop"
    /\ UNCHANGED <<Notifiers, extractErr, text, summary, description, backlogProjectID,
                   issueTypeID, priorityID, ctxDone, ret>>
    /\ UNCHANGED <<baseURL, answer>>

\* after the loop: the aggregate error, or nil
NotifyReturn ==
    /\ pc = "loop"
    /\ i > Len(Notifiers)
    /\ ret' = NotifyResult(allErrors)
    /\ pc' = "done"
    /\ UNCHANGED <<Notifiers, i, extractErr, text, summary, description, backlogProjectID,
                   issueTypeID, priorityID, ctxDone, allErrors, trace, requests>>
    /\ UNCHANGED <<baseURL, answer>>

\* Notify has returned to its caller: its arguments and locals are gone
Returned ==
    /\ pc = "done"
    /\ pc' = "idle"
    /\ i' = 0
    /\ extractErr' = FALSE
    /\ text' = <<>>
    /\ summary' = <<>>
    /\ description' = <<>>
    /\ backlogProjectID' = 0
    /\ issueTypeID' = 0
    /\ priorityID' = 0
    /\ ctxDone' = FALSE
    /\ allErrors' = <<>>
    /\ trace' = <<>>
    /\ requests' = <<>>
    /\ ret' = NoRet
    /\ answer' = NoAnswer
    /\ UNCHANGED <<Notifiers, baseURL>>

Next ==
    \/ \E kind \in Kinds : AddNotifier(kind)
    \/ \E t \in Texts, ok \in BOOLEAN, projectID \in ProjectIDs, it \in AttrIDs, pr \in AttrIDs :
          Notify(t, ok, projectID, it, pr)
    \/ Cancel
    \/ RejectIDs
    \/ SendCall
    \/ SendReturn
    \/ NotifyReturn
    \/ Returned

Spec == Init /\ [][Next]_vars

----------------------------------------------------------------------------
(* Notify with one MockNotifier registered, for extracted texts with white *)
(* space in them: what the notifier is handed as summary and description   *)

InitSplit ==
    /\ Notifiers = NewContentNotifier(<<"mock">>)
    /\ pc = "idle"
    /\ i = 0
    /\ extractErr = FALSE
    /\ text = <<>>
    /\ summary = <<>>
    /\ description = <<>>
    /\ backlogProjectID = 0
    /\ issueTypeID = 0
    /\ priorityID = 0
    /\ ctxDone = FALSE
    /\ allErrors = <<>>
    /\ trace = <<>>
    /\ requests = <<>>
    /\ ret = NoRet
    /\ baseURL = DefaultBaseURL
    /\ answer = NoAnswer

NextSplit ==
    \/ \E t \in SplitTexts, ok \in BOOLEAN, projectID \in {0, 1} : Notify(t, ok, projectID, 1, 1)
    \/ SendCall
    \/ SendReturn
    \/ NotifyReturn
    \/ Returned

SpecSplit == InitSplit /\ [][NextSplit]_vars

----------------------------------------------------------------------------
(* The adapters called directly, as the backlog and slack commands do *)

ErrRet(err) == [kind |-> (IF err = "nil" THEN "nil" ELSE err), errors |-> <<>>]

\* the (int, error) pair GetProjectID returns
IDRet(id, err) == [kind |-> err, errors |-> <<>>, id |-> id]

\* the error postRequest returns, a *BacklogError with its fields for a non-2xx status
PostOutcome(resp, body) ==
    IF postRequest(resp) = "BacklogError"
    THEN [kind |-> "BacklogError", errors |-> <<BacklogErrorOf(resp.status, body)>>]
    ELSE ErrRet(postRequest(resp))

\* what c.client.Do may answer to a POST of the tracker adapter
DoPost == Do(FALSE, FALSE) \cup {Response("none", st) : st \in Statuses}

\* the body postRequest reads: only that of a non-2xx response
BodiesOf(resp) ==
    IF resp.neterr = "none" /\ ~Is2xx(resp.status) THEN Bodies ELSE {NoBody}

ResponseAnswer(resp, body) == [kind |-> "response", resp |-> resp, body |-> body]

\* what the tracker may answer to the project query
ProjectAnswers ==
    {[kind |-> "fetchErr", id |-> 0], [kind |-> "parseErr", id |-> 0]}
    \cup {[kind |-> "project", id |-> n] : n \in ProjectRespIDs}

\* the method called and the arguments that are not kept elsewhere
Call(op, args) == [ev |-> "call", op |-> op, args |-> args]

InitBacklog ==
    /\ Notifiers = <<>>
    /\ pc = "idle"
    /\ i = 0
    /\ extractErr = FALSE
    /\ text = <<>>
    /\ summary = <<>>
    /\ description = <<>>
    /\ backlogProjectID = 0
    /\ issueTypeID = 0
    /\ priorityID = 0
    /\ ctxDone = FALSE
    /\ allErrors = <<>>
    /\ trace = <<>>
    /\ requests = <<>>
    /\ ret = NoRet
    /\ baseURL = DefaultBaseURL
    /\ answer = NoAnswer

\* SendIssue(ctx, summary, description, projectID): up to the issue type query
SendIssue(s, d, projectID) ==
    /\ pc = "idle"
    /\ summary' = cleanStringFromEmojis(s)
    /\ description' = cleanStringFromEmojis(d)
    /\ backlogProjectID' = projectID
    /\ trace' = <<Call("SendIssue", <<>>)>>
    /\ requests' = <<GetRequestOf("/projects/:id/issueTypes", projectID)>>
    /\ pc' = "issueTypes"
    /\ UNCHANGED <<Notifiers, i, extractErr, text, issueTypeID, priorityID, ctxDone,
                   allErrors, ret, baseURL, answer>>

\* getFirstIssueAttributes: the issue type list arrives; on success query the priorities
IssueTypesAnswer(ans) ==
    /\ pc = "issueTypes"
    /\ answer' = ans
    /\ IF IssueTypeError(ans) # "nil"
       THEN /\ ret' = ErrRet(IssueTypeError(ans))
            /\ pc' = "done"
            /\ UNCHANGED <<issueTypeID, requests>>
       ELSE /\ issueTypeID' = FoundID(ans.list, TaskName)
            /\ requests' = Append(requests, GetRequestOf("/priorities", 0))
            /\ pc' = "priorities"
            /\ UNCHANGED ret
    /\ UNCHANGED <<Notifiers, i, extractErr, text, summary, description, backlogProjectID,
                   priorityID, ctxDone, allErrors, trace, baseURL>>

\* getFirstIssueAttributes: the priority list arrives; on success SendIssue posts the issue
PrioritiesAnswer(ans) ==
    /\ pc = "priorities"
    /\ answer' = ans
    /\ IF PriorityError(ans) # "nil"
       THEN /\ ret' = ErrRet(PriorityError(ans))
            /\ pc' = "done"
            /\ UNCHANGED <<priorityID, requests>>
       ELSE /\ priorityID' = FoundID(ans.list, MediumName)
            /\ requests' = Append(requests,
                  PostRequestOf("/issues",
                      BacklogIssuePayload(backlogProjectID, summary, description,
                                          issueTypeID, FoundID(ans.list, MediumName))))
            /\ pc' = "post"
            /\ UNCHANGED ret
    /\ UNCHANGED <<Notifiers, i, extractErr, text, summary, description, backlogProjectID,
                   issueTypeID, ctxDone, allErrors, trace, baseURL>>

\* postRequest: the transport answers the POST
PostAnswer(resp, body) ==
    /\ pc = "post"
    /\ answer' = ResponseAnswer(resp, body)
    /\ ret' = PostOutcome(resp, body)
    /\ pc' = "done"
    /\ UNCHANGED <<Notifiers, i, extractErr, text, summary, description, backlogProjectID,
                   issueTypeID, priorityID, ctxDone, allErrors, trace, requests, baseURL>>

\* SendIssue(ctx, summary, description, projectID, issueTypeID, priorityID)
SendIssueWithIDs(s, d, projectID, it, pr) ==
    /\ pc = "idle"
    /\ \E resp \in DoPost :
         \E body \in BodiesOf(resp) :
           LET r == Backlog_SendIssueWithIDs(s, d, projectID, it, pr, resp)
           IN  /\ requests' = r.reqs
               /\ answer' = ResponseAnswer(resp, body)
               /\ ret' = PostOutcome(resp, body)
    /\ summary' = cleanStringFromEmojis(s)
    /\ description' = cleanStringFromEmojis(d)
    /\ backlogProjectID' = projectID
    /\ issueTypeID' = it
    /\ priorityID' = pr
    /\ trace' = <<Call("SendIssueWithIDs", <<it, pr>>)>>
    /\ pc' = "done"
    /\ UNCHANGED <<Notifiers, i, extractErr, text, ctxDone, allErrors, baseURL>>

\* BacklogNotifier.SendText(ctx, message)
SendText(message) ==
    /\ pc = "idle"
    /\ LET r == Backlog_SendText(message)
       IN  /\ requests' = r.reqs
           /\ ret' = ErrRet(r.err)
    /\ description' = message
    /\ trace' = <<Call("SendText", <<>>)>>
    /\ pc' = "done"
    /\ UNCHANGED <<Notifiers, i, extractErr, text, summary, backlogProjectID, issueTypeID,
                   priorityID, ctxDone, allErrors, baseURL, answer>>

\* BacklogNotifier.SendTextWithHeader(ctx, headerText, message)
SendTextWithHeader(headerText, message) ==
    /\ pc = "idle"
    /\ LET r == Backlog_SendTextWithHeader(headerText, message)
       IN  /\ requests' = r.reqs
           /\ ret' = ErrRet(r.err)
    /\ summary' = headerText
    /\ description' = message
    /\ trace' = <<Call("SendTextWithHeader", <<>>)>>
    /\ pc' = "done"
    /\ UNCHANGED <<Notifiers, i, extractErr, text, backlogProjectID, issueTypeID,
                   priorityID, ctxDone, allErrors, baseURL, answer>>

\* PostComment(ctx, issueID, content): up to the POST
PostComment(issueID, content) ==
    /\ pc = "idle"
    /\ trace' = <<Call("PostComment", <<issueID>>)>>
    /\ IF IssueKeyEmpty(issueID)
       THEN /\ requests' = <<>>
            /\ ret' = ErrRet("empty-issue-id")
            /\ description' = <<>>
            /\ pc' = "done"
       ELSE /\ requests' = <<CommentRequestOf(issueID,
                                  [content |-> cleanStringFromEmojis(content)])>>
            /\ ret' = NoRet
            /\ description' = cleanStringFromEmojis(content)
            /\ pc' = "post"
    /\ UNCHANGED <<Notifiers, i, extractErr, text, summary, backlogProjectID, issueTypeID,
                   priorityID, ctxDone, allErrors, baseURL, answer>>

\* GetProjectID(ctx, projectKey): up to the project query
GetProjectID(projectKey) ==
    /\ pc = "idle"
    /\ trace' = <<Call("GetProjectID", <<projectKey>>)>>
    /\ IF ProjectKeyEmpty(projectKey)
       THEN /\ requests' = <<>>
            /\ ret' = IDRet(0, "empty-project-key")
            /\ pc' = "done"
       ELSE /\ requests' = <<GetRequestOf("/projects/:key", projectKey)>>
            /\ ret' = NoRet
            /\ pc' = "project"
    /\ UNCHANGED <<Notifiers, i, extractErr, text, summary, description, backlogProjectID,
                   issueTypeID, priorityID, ctxDone, allErrors, baseURL, answer>>

\* GetProjectID: the project arrives
ProjectAnswer(ans) ==
    /\ pc = "project"
    /\ answer' = ans
    /\ ret' = IF ProjectError(ans) # "nil" THEN IDRet(0, ProjectError(ans))
              ELSE IDRet(ans.id, "nil")
    /\ pc' = "done"
    /\ UNCHANGED <<Notifiers, i, extractErr, text, summary, description, backlogProjectID,
                   issueTypeID, priorityID, ctxDone, allErrors, trace, requests, baseURL>>

\* SlackNotifier.SendTextWithHeader(ctx, headerText, message), as the slack command calls it
SlackSendTextWithHeader(headerText, message) ==
    /\ pc = "idle"
    /\ \E resp \in Do(FALSE, FALSE) :
         LET r == Slack_SendTextWithHeader(headerText, message, resp)
         IN  /\ requests' = r.reqs
             /\ ret' = ErrRet(r.err)
             /\ answer' = ResponseAnswer(resp, NoBody)
    /\ summary' = headerText
    /\ description' = message
    /\ trace' = <<Call("Slack.SendTextWithHeader", <<>>)>>
    /\ pc' = "done"
    /\ UNCHANGED <<Notifiers, i, extractErr, text, backlogProjectID, issueTypeID,
                   priorityID, ctxDone, allErrors, baseURL>>

NextBacklog ==
    \/ \E s \in Strings, d \in Descriptions, projectID \in ProjectIDs :
          SendIssue(s, d, projectID)
    \/ \E ans \in Answers : IssueTypesAnswer(ans)
    \/ \E ans \in Answers : PrioritiesAnswer(ans)
    \/ \E resp \in DoPost : \E body \in BodiesOf(resp) : PostAnswer(resp, body)
    \/ \E s \in Strings, d \in Descriptions, projectID \in ProjectIDs,
          it \in CallerIDs, pr \in CallerIDs :
             SendIssueWithIDs(s, d, projectID, it, pr)
    \/ \E message \in Strings : SendText(message)
    \/ \E headerText \in Strings, message \in Strings : SendTextWithHeader(headerText, message)
    \/ \E issueID \in Keys, content \in Strings : PostComment(issueID, content)
    \/ \E projectKey \in Keys : GetProjectID(projectKey)
    \/ \E ans \in ProjectAnswers : ProjectAnswer(ans)
    \/ \E headerText \in Strings, message \in Strings :
          SlackSendTextWithHeader(headerText, message)
    \/ Returned

SpecBacklog == InitBacklog /\ [][NextBacklog]_vars

----------------------------------------------------------------------------
(* NewBacklogNotifier, as the commands call it with the environment's values *)

InitNew ==
    /\ Notifiers = <<>>
    /\ pc = "idle"
    /\ i = 0
    /\ extractErr = FALSE
    /\ text = <<>>
    /\ summary = <<>>
    /\ description = <<>>
    /\ backlogProjectID = 0
    /\ issueTypeID = 0
    /\ priorityID = 0
    /\ ctxDone = FALSE
    /\ allErrors = <<>>
    /\ trace = <<>>
    /\ requests = <<>>
    /\ ret = NoRet
    /\ baseURL = <<>>
    /\ answer = NoAnswer

\* NewBacklogNotifier(client, spaceURL, apiKey)
NewBacklogNotifier(spaceURL, apiKey) ==
    /\ pc = "idle"
    /\ trace' = <<Call("NewBacklogNotifier", <<spaceURL, apiKey>>)>>
    /\ IF ConfigMissing(spaceURL, apiKey)
       THEN /\ ret' = ErrRet("config-missing")
            /\ baseURL' = <<>>
       ELSE /\ ret' = ErrRet("nil")
            /\ baseURL' = BaseURLOf(spaceURL)
    /\ pc' = "done"
    /\ UNCHANGED <<Notifiers, i, extractErr, text, summary, description, backlogProjectID,
                   issueTypeID, priorityID, ctxDone, allErrors, requests, answer>>

\* NewBacklogNotifier given the base URL a notifier already holds as its space URL
NewBacklogNotifierAgain(apiKey) ==
    /\ pc = "done"
    /\ ret.kind = "nil"
    /\ Len(trace) = 1
    /\ trace' = <<Call("NewBacklogNotifier", <<baseURL, apiKey>>)>> \o trace
    /\ IF ConfigMissing(baseURL, apiKey)
       THEN /\ ret' = ErrRet("config-missing")
            /\ baseURL' = <<>>
       ELSE /\ ret' = ErrRet("nil")
            /\ baseURL' = BaseURLOf(baseURL)
    /\ pc' = "done"
    /\ UNCHANGED <<Notifiers, i, extractErr, text, summary, description, backlogProjectID,
                   issueTypeID, priorityID, ctxDone, allErrors, requests, answer>>

\* the request as it leaves the notifier: sent to c.baseURL with c.apiKey
SentBy(req, url, apiKey) ==
    [method |-> req.method, endpoint |-> req.endpoint, body |-> req.body,
     url |-> url, apiKey |-> apiKey]

\* the backlog command after a successful construction: backlogNotifier.SendIssue;
\* a failed construction ends the command (log.Fatalf) with no notifier to call
CommandSendIssue(s, d, resp) ==
    /\ pc = "done"
    /\ ret.kind = "nil"
    /\ LET r == Backlog_SendIssueWithIDs(s, d, 1, 1, 1, resp)
       IN  /\ requests' = [k \in DOMAIN r.reqs |->
                              SentBy(r.reqs[k], baseURL, trace[1].args[2])]
           /\ ret' = ErrRet(r.err)
    /\ pc' = "sent"
    /\ UNCHANGED <<Notifiers, i, extractErr, text, summary, description, backlogProjectID,
                   issueTypeID, priorityID, ctxDone, allErrors, trace, baseURL, answer>>

\* the command is over; the next run constructs its own notifier
Exit ==
    /\ pc \in {"done", "sent"}
    /\ pc' = "idle"
    /\ trace' = <<>>
    /\ ret' = NoRet
    /\ baseURL' = <<>>
    /\ requests' = <<>>
    /\ UNCHANGED <<Notifiers, i, extractErr, text, summary, description, backlogProjectID,
                   issueTypeID, priorityID, ctxDone, allErrors, answer>>

NextNew ==
    \/ \E spaceURL \in SpaceURLs, apiKey \in ApiKeys : NewBacklogNotifier(spaceURL, apiKey)
    \/ \E apiKey \in ApiKeys : NewBacklogNotifierAgain(apiKey)
    \/ \E s \in Strings \ {<<>>}, resp \in Do(FALSE, FALSE) : CommandSendIssue(s, <<>>, resp)
    \/ Exit

SpecNew == InitNew /\ [][NextNew]_vars

----------------------------------------------------------------------------
(* SlackNotifier.SendTextWithHeader: the Block Kit blocks it builds.  A     *)
(* message body is kept by what the builder reads of it: its length in     *)
(* bytes, whether it is white space only, and how many matches each of the *)
(* three Markdown patterns has in it.  A body is taken not to end with the *)
(* truncation suffix by itself                                             *)

maxSectionLength == 2900

\* variant: the limit is met by the header and its divider already
maxBlocksSmall == 2 + 2

maxBlocks == 50

\* len(truncationSuffix), in bytes
truncationSuffixLen == 65

\* the bytes a match takes in its plainest form: **x**, and "## x" and "- x" with
\* their line end
BoldBytes == 5
HeadingBytes == 5
ItemBytes == 4

Lens == {0, 1, 5, 14}
        \cup ((maxSectionLength - Near)..(maxSectionLength + Near))

Messages ==
    {m \in [len : Lens, blank : BOOLEAN, bolds : 0..MaxMarks,
            headings : 0..MaxMarks, items : 0..MaxMarks] :
        /\ m.blank => m.bolds = 0 /\ m.headings = 0 /\ m.items = 0
        /\ ~m.blank => m.len >= 1
        /\ m.len >= BoldBytes * m.bolds + HeadingBytes * m.headings + ItemBytes * m.items}

\* ReplaceAllString of the three patterns: **x** -> *x* loses two bytes, "## x" -> *x*
\* loses the white space after ##, "- " -> the bullet and a space gains two
ProcessedLen(m) == m.len - 2 * m.bolds - m.headings + 2 * m.items

\* variant: the text is cut at maxSectionLength and no suffix is appended
SectionTextCut(m) ==
    IF ProcessedLen(m) > maxSectionLength
    THEN [len |-> maxSectionLength, truncated |-> FALSE]
    ELSE [len |-> ProcessedLen(m), truncated |-> FALSE]

\* variant: the suffix is appended to a text cut at maxSectionLength
SectionTextLong(m) ==
    IF ProcessedLen(m) > maxSectionLength
    THEN [len |-> maxSectionLength + truncationSuffixLen, truncated |-> TRUE]
    ELSE [len |-> ProcessedLen(m), truncated |-> FALSE]

\* processedText, cut to maxSectionLength-len(truncationSuffix) with the suffix
\* appended when it is longer than maxSectionLength
SectionText(m) ==
    IF ProcessedLen(m) > maxSectionLength
    THEN [len |-> (maxSectionLength - truncationSuffixLen) + truncationSuffixLen,
          truncated |-> TRUE]
    ELSE [len |-> ProcessedLen(m), truncated |-> FALSE]

HeaderBlock(headerText) == [type |-> "header", text |-> headerText]
DividerBlock == [type |-> "divider"]
SectionBlock(m) ==
    [type |-> "section", len |-> SectionText(m).len,
     truncated |-> SectionText(m).truncated, notice |-> FALSE]
\* the section that holds the truncation suffix alone
NoticeBlock ==
    [type |-> "section", len |-> truncationSuffixLen, truncated |-> TRUE, notice |-> TRUE]
FooterBlock == [type |-> "context"]

\* variant: no divider follows a section
SectionAndDividerBare(m) == <<SectionBlock(m)>>

\* blocks = append(blocks, sectionBlock, slack.NewDividerBlock())
SectionAndDivider(m) == <<SectionBlock(m), DividerBlock>>

\* reviewSections := []string{message}
reviewSections(message) == <<message>>

\* the loop over reviewSections
RECURSIVE AppendSections(_, _)
AppendSections(blocks, sections) ==
    IF sections = <<>> THEN blocks
    ELSE IF Len(blocks) >= maxBlocks - 2 THEN Append(blocks, NoticeBlock)
    ELSE IF Head(sections).blank THEN AppendSections(blocks, Tail(sections))
    ELSE AppendSections(blocks \o SectionAndDivider(Head(sections)), Tail(sections))

\* the blocks before the last one is dropped
BuiltBlocks(headerText, message) ==
    AppendSections(<<HeaderBlock(headerText), DividerBlock>>, reviewSections(message))

\* if len(blocks) > 0 { blocks = blocks[:len(blocks)-1] }
DropLast(blocks) ==
    IF Len(blocks) > 0 THEN SubSeq(blocks, 1, Len(blocks) - 1) ELSE blocks

\* the BlockSet of the WebhookMessage
BlocksOf(headerText, message) ==
    Append(DropLast(BuiltBlocks(headerText, message)), FooterBlock)

\* what the step that drops the last block took away
Dropped(blocks) ==
    [ev |-> "dropped",
     block |-> IF Len(blocks) > 0 THEN blocks[Len(blocks)] ELSE [type |-> "none"]]

\* the WebhookMessage that is posted
WebhookMessage(req) ==
    [method |-> req.method, endpoint |-> req.endpoint,
     body |-> [text |-> req.body.text, message |-> req.body.message,
               blocks |-> BlocksOf(req.body.text, req.body.message)]]

InitSlack ==
    /\ Notifiers = <<>>
    /\ pc = "idle"
    /\ i = 0
    /\ extractErr = FALSE
    /\ text = <<>>
    /\ summary = <<>>
    /\ description = <<>>
    /\ backlogProjectID = 0
    /\ issueTypeID = 0
    /\ priorityID = 0
    /\ ctxDone = FALSE
    /\ allErrors = <<>>
    /\ trace = <<>>
    /\ requests = <<>>
    /\ ret = NoRet
    /\ baseURL = <<>>
    /\ answer = NoAnswer

\* SlackNotifier.SendTextWithHeader(ctx, headerText, message)
SlackPostBlocks(headerText, message, resp) ==
    /\ pc = "idle"
    /\ LET r == Slack_SendTextWithHeader(headerText, message, resp)
       IN  /\ requests' = [k \in DOMAIN r.reqs |-> WebhookMessage(r.reqs[k])]
           /\ ret' = ErrRet(r.err)
    /\ answer' = ResponseAnswer(resp, NoBody)
    /\ summary' = headerText
    /\ description' = message
    /\ trace' = <<Call("Slack.SendTextWithHeader", <<>>),
                  Dropped(BuiltBlocks(headerText, message))>>
    /\ pc' = "done"
    /\ UNCHANGED <<Notifiers, i, extractErr, text, backlogProjectID, issueTypeID,
                   priorityID, ctxDone, allErrors, baseURL>>

\* SlackNotifier.SendIssue(ctx, summary, description, projectID, issueTypeID, priorityID)
SlackSendIssue(s, d, projectID, it, pr, resp) ==
    /\ pc = "idle"
    /\ LET r == Slack_SendIssue(s, d, projectID, it, pr, resp)
       IN  /\ requests' = [k \in DOMAIN r.reqs |-> WebhookMessage(r.reqs[k])]
           /\ ret' = ErrRet(r.err)
           /\ trace' = <<Call("Slack.SendIssue", <<projectID, it, pr>>)>>
                        \o [k \in DOMAIN r.reqs |->
                              Dropped(BuiltBlocks(r.reqs[k].body.text, r.reqs[k].body.message))]
    /\ answer' = ResponseAnswer(resp, NoBody)
    /\ summary' = s
    /\ description' = d
    /\ pc' = "done"
    /\ UNCHANGED <<Notifiers, i, extractErr, text, backlogProjectID, issueTypeID,
                   priorityID, ctxDone, allErrors, baseURL>>

NextSlack ==
    \/ /\ pc = "idle"
       /\ \E headerText \in Strings, message \in Messages, resp \in Do(FALSE, FALSE) :
             SlackPostBlocks(headerText, message, resp)
    \/ /\ pc = "idle"
       /\ \E s \in Strings, d \in Messages, projectID \in ProjectIDs, it \in AttrIDs,
             pr \in AttrIDs, resp \in Do(FALSE, FALSE) :
                SlackSendIssue(s, d, projectID, it, pr, resp)
    \/ Returned

SpecSlack == InitSlack /\ [][NextSlack]_vars

----------------------------------------------------------------------------
(* Properties of ContentNotifier.Notify (checked under Spec) *)

Calls == {k \in DOMAIN trace : trace[k].ev = "call"}
Returns == {k \in DOMAIN trace : trace[k].ev = "return"}
Rejects == {k \in DOMAIN trace : trace[k].ev = "reject"}
Visits == Calls \cup Rejects
Failures == {k \in Returns \cup Rejects : trace[k].err # "nil"}

CalledOn(n) == {k \in Calls : trace[k].reg = n.reg}
SendFailed(n) == \E k \in Returns : trace[k].reg = n.reg /\ trace[k].err # "nil"
AdapterFailed(n) == \E k \in Failures : trace[k].reg = n.reg

\* Notify has returned after a successful extraction
Finished == pc = "done" /\ ~extractErr

\* C1: a send failure never aborts the loop: when Notify returns, every notifier
\* registered after one whose send failed has been attempted, i.e. its send has
\* been called (or, for a BacklogNotifier with a zero issue type / priority id
\* under ticket routing, its rejection has been recorded).
C1_FailureIsolation ==
    Finished =>
        \A j, k \in DOMAIN Notifiers :
            (j < k /\ SendFailed(Notifiers[j])) =>
                IF backlogProjectID # 0 /\ Notifiers[k].kind = "backlog"
                   /\ (issueTypeID = 0 \/ priorityID = 0)
                THEN \E e \in Rejects : trace[e].reg = Notifiers[k].reg
                ELSE /\ CalledOn(Notifiers[k]) # {}
                     /\ \E e \in Returns : trace[e].reg = Notifiers[k].reg

C1_Witness ==
    /\ Finished
    /\ Len(Notifiers) >= 2
    /\ SendFailed(Notifiers[1])
    /\ CalledOn(Notifiers[2]) # {}

\* C2: when Notify returns after the loop it returns nil exactly when no failure
\* was recorded; otherwise it returns the aggregate error, whose entries name each
\* failed notifier with its error and nothing else.
C2_AggregateIffFailure ==
    Finished =>
        /\ ret.kind \in {"nil", "aggregate"}
        /\ (ret.kind = "nil") <=> (Failures = {})
        /\ \A k \in Failures :
              \E m \in DOMAIN ret.errors :
                  /\ ret.errors[m].reg = trace[k].reg
                  /\ ret.errors[m].kind = trace[k].kind
                  /\ ret.errors[m].err = trace[k].err
        /\ \A m \in DOMAIN ret.errors :
              \E k \in Failures :
                  /\ ret.errors[m].reg = trace[k].reg
                  /\ ret.errors[m].err = trace[k].err

C2_Witness ==
    /\ Finished
    /\ ret.kind = "aggregate"
    /\ \E k \in Returns : trace[k].err = "nil"
    /\ \E k \in Returns : trace[k].err # "nil"

\* the notifiers that failed, in registration order
FailedAdapters == SelectSeq(Notifiers, AdapterFailed)

\* C3: with K failing notifiers out of N the aggregate holds exactly K entries, the
\* m-th entry being that of the m-th failing notifier in registration order.
C3_FailureCountAndOrder ==
    Finished =>
        /\ Len(ret.errors) = Len(FailedAdapters)
        /\ \A m \in DOMAIN ret.errors :
              /\ ret.errors[m].reg = FailedAdapters[m].reg
              /\ ret.errors[m].kind = FailedAdapters[m].kind
        /\ \A m \in DOMAIN Notifiers : Notifiers[m].reg = m

C3_Witness ==
    /\ Finished
    /\ Len(Notifiers) >= 2
    /\ Len(ret.errors) >= 2
    /\ ret.errors[1].kind # ret.errors[2].kind

\* C4: when the extraction fails Notify is over at once: it returns the wrapped
\* extraction error and no notifier has been called, nothing sent, nothing recorded.
C4_ExtractionFailedTerminal ==
    extractErr =>
        /\ pc = "done"
        /\ ret.kind = "extract"
        /\ trace = <<>>
        /\ requests = <<>>
        /\ allErrors = <<>>

C4_Witness ==
    /\ extractErr
    /\ pc = "done"
    /\ Len(Notifiers) >= 1

\* C5: the notifiers are attempted in registration order (constructor arguments
\* first, then AddNotifier calls in call order) and one at a time: a send is
\* started only after the previous one has returned.
C5_RegistrationOrderSequential ==
    /\ \A m \in DOMAIN Notifiers : Notifiers[m].reg = m
    /\ \A p, q \in Visits : p < q => trace[p].reg < trace[q].reg
    /\ \A p \in Calls :
          \/ p = Len(trace) /\ pc = "sending"
          \/ /\ p < Len(trace)
             /\ trace[p + 1].ev = "return"
             /\ trace[p + 1].reg = trace[p].reg
    /\ pc = "sending" => (trace # <<>> /\ trace[Len(trace)].ev = "call")

C5_Witness ==
    /\ Finished
    /\ Len(Notifiers) > MaxCtorArgs
    /\ Cardinality(Calls) = Len(Notifiers)

\* C6: once ctx is done during a dispatch no further send is started: every
\* notifier not yet started is skipped and recorded as failed with a
\* cancellation error.
C6_CancelSkipsRemaining ==
    /\ \A k \in Calls : ~trace[k].cancelled
    /\ Finished =>
          \A m \in DOMAIN Notifiers :
              CalledOn(Notifiers[m]) = {} /\ ctxDone =>
                  \E e \in DOMAIN ret.errors :
                      /\ ret.errors[e].reg = Notifiers[m].reg
                      /\ ret.errors[e].err = "canceled"

\* C7: every send of one dispatch is of the routed kind, SendIssue(summary,
\* description, backlogProjectID, issueTypeID, priorityID) when backlogProjectID
\* is not 0 and SendTextWithHeader(summary, description) otherwise; a notifier
\* gets at most one send, so never both kinds.
C7_RoutingOneKind ==
    /\ \A k \in Calls :
          /\ trace[k].a1 = SummaryOf(text)
          /\ trace[k].a2 = DescriptionOf(text)
          /\ IF backlogProjectID # 0
             THEN /\ trace[k].op = "SendIssue"
                  /\ trace[k].ids = <<backlogProjectID, issueTypeID, priorityID>>
             ELSE /\ trace[k].op = "SendTextWithHeader"
                  /\ trace[k].ids = <<>>
    /\ \A m \in DOMAIN Notifiers : Cardinality(CalledOn(Notifiers[m])) <= 1
    /\ \A k \in Returns : k > 1 /\ trace[k - 1].ev = "call" /\ trace[k].op = trace[k - 1].op

C7_Witness ==
    /\ Finished
    /\ backlogProjectID # 0
    /\ Cardinality(Calls) = 2
    /\ \A k \in Calls : trace[k].op = "SendIssue"
    /\ SummaryOf(text) # DescriptionOf(text)

\* C8: after a successful extraction every registered notifier, whatever its
\* concrete type, has exactly one send called on it; none is rejected beforehand.
C8_EveryAdapterSentOnce ==
    Finished =>
        /\ \A m \in DOMAIN Notifiers : Cardinality(CalledOn(Notifiers[m])) = 1
        /\ Rejects = {}

----------------------------------------------------------------------------
(* Properties of the adapters called directly (checked under SpecBacklog) *)

\* the method that is running or has just returned
Op == IF trace = <<>> THEN "none" ELSE trace[1].op

IsSendIssue == Op \in {"SendIssue", "SendIssueWithIDs"}

Gets(endpoint) == {k \in DOMAIN requests :
                      requests[k].method = "GET" /\ requests[k].endpoint = endpoint}

Posts == {k \in DOMAIN requests : requests[k].method = "POST"}

IssuePosts == {k \in DOMAIN requests :
                  requests[k].method = "POST" /\ requests[k].endpoint = "/issues"}

\* C9: SendIssue with projectID <= 0 hands no request to the transport (no issue
\* type query, no priority query, no POST) and fails.
C9_InvalidProjectNoRequest ==
    (pc # "idle" /\ IsSendIssue /\ backlogProjectID <= 0) =>
        /\ requests = <<>>
        /\ pc = "done" => ret.kind # "nil"

\* C10: every POST to /issues carries a strictly positive issueTypeId and priorityId.
C10_PostedIDsPositive ==
    \A k \in IssuePosts :
        /\ requests[k].body.issueTypeId > 0
        /\ requests[k].body.priorityId > 0

\* C11: SendIssue resolves the attributes exactly when the caller did not supply
\* them: with both ids supplied no issue type / priority list is queried and the
\* POSTed payload carries the supplied ids; with the ids omitted (the 4-argument
\* call, or zero ids) both lists are queried and the payload carries the resolved
\* ids.
C11_ResolutionIffOmitted ==
    (IsSendIssue /\ IssuePosts # {}) =>
        LET post == requests[CHOOSE k \in IssuePosts : TRUE].body
            supplied == Op = "SendIssueWithIDs" /\ trace[1].args[1] # 0 /\ trace[1].args[2] # 0
            omitted == Op = "SendIssue"
                       \/ (Op = "SendIssueWithIDs" /\ trace[1].args = <<0, 0>>)
        IN  /\ supplied =>
                  /\ Gets("/projects/:id/issueTypes") = {}
                  /\ Gets("/priorities") = {}
                  /\ post.issueTypeId = trace[1].args[1]
                  /\ post.priorityId = trace[1].args[2]
            /\ omitted =>
                  /\ Gets("/projects/:id/issueTypes") # {}
                  /\ Gets("/priorities") # {}
                  /\ post.issueTypeId = issueTypeID
                  /\ post.priorityId = priorityID

\* the list getFirstIssueAttributes has just been answered with, the label it
\* prefers there, whether it failed on that list and the id it selected
ListAnswered == IsSendIssue /\ answer.kind = "list" /\ pc \in {"priorities", "post", "done"}
ListFailed == pc = "done"
IssueTypeList == pc = "priorities" \/ (pc = "done" /\ Len(requests) = 1)
PreferredName == IF IssueTypeList THEN TaskName ELSE MediumName
SelectedID == IF IssueTypeList THEN issueTypeID ELSE priorityID
NamedEntries(list, name) == {k \in DOMAIN list : list[k].name = name}
FirstNamedEntry(list, name) ==
    list[CHOOSE k \in NamedEntries(list, name) : \A m \in NamedEntries(list, name) : k <= m]

\* C12 as stated: the resolver returns the id of the entry named with the preferred
\* label if there is one, else the id of the first entry, and it fails if and only
\* if the list is empty.
C12_SelectionPolicy ==
    ListAnswered =>
        /\ ListFailed <=> (answer.list = <<>>)
        /\ ~ListFailed =>
              SelectedID = IF NamedEntries(answer.list, PreferredName) # {}
                           THEN FirstNamedEntry(answer.list, PreferredName).id
                           ELSE answer.list[1].id

\* the id selected from a list: that of the first entry with the preferred label
\* when it is not zero, else that of the first entry; zero for an empty list
ExpectedID(list, name) ==
    IF NamedEntries(list, name) # {} /\ FirstNamedEntry(list, name).id # 0
    THEN FirstNamedEntry(list, name).id
    ELSE IF list # <<>> THEN list[1].id
    ELSE 0

\* C12 amended: the resolver returns the id of the first entry named with the
\* preferred label when there is one and its id is not zero, otherwise the id of
\* the first entry of the list; it fails if and only if the list is empty or the
\* id so selected is zero.
C12_SelectionPolicyAmended ==
    ListAnswered =>
        /\ ListFailed <=> (ExpectedID(answer.list, PreferredName) = 0)
        /\ ListFailed => ret.kind \in {"issueTypes-notfound", "priorities-notfound"}
        /\ ~ListFailed => SelectedID = ExpectedID(answer.list, PreferredName)

C12_Witness ==
    /\ ListAnswered
    /\ pc = "post"
    /\ Len(answer.list) = 2
    /\ answer.list[1].name # MediumName
    /\ answer.list[2].name = MediumName
    /\ answer.list[1].id # answer.list[2].id
    /\ answer.list[2].id # 0
    /\ priorityID = answer.list[2].id

\* C13: a ticket creation with resolution hands its requests to the transport in
\* the order issue type query, priority query, POST /issues; the priority query is
\* made only after the issue type list gave a usable entry, the POST only after
\* the priority list did; a failed resolution ends the operation with an error.
C13_ResolutionOrder ==
    Op = "SendIssue" =>
        /\ Len(requests) \in 1..3
        /\ requests[1].method = "GET" /\ requests[1].endpoint = "/projects/:id/issueTypes"
        /\ Len(requests) >= 2 =>
              /\ requests[2].method = "GET" /\ requests[2].endpoint = "/priorities"
              /\ issueTypeID # 0
        /\ Len(requests) = 3 =>
              /\ requests[3].method = "POST" /\ requests[3].endpoint = "/issues"
              /\ priorityID # 0
        /\ pc = "issueTypes" <=> (Len(requests) = 1 /\ pc # "done")
        /\ pc = "priorities" =>
              (Len(requests) = 2 /\ answer.kind = "list" /\ answer.list # <<>>)
        /\ pc = "post" =>
              (Len(requests) = 3 /\ answer.kind = "list" /\ answer.list # <<>>)
        /\ (pc = "done" /\ Len(requests) < 3) =>
              (ret.kind # "nil" /\ answer.kind \in {"fetchErr", "parseErr", "list"})

C13_Witness ==
    /\ Op = "SendIssue"
    /\ pc = "done"
    /\ Len(requests) = 2
    /\ answer.kind = "fetchErr"
    /\ issueTypeID # 0

\* C14: SendText and SendTextWithHeader of the tracker adapter fail for every
\* input with the fixed unsupported-operation error and hand no request to the
\* transport.
C14_PlainTextUnsupported ==
    Op \in {"SendText", "SendTextWithHeader"} =>
        /\ pc = "done"
        /\ ret.kind = "unsupported"
        /\ requests = <<>>

C14_Witness ==
    /\ Op = "SendText"
    /\ description # <<>>
    /\ ret.kind = "unsupported"

\* C15: every POST the tracker adapter makes to create an issue or post a comment
\* carries the API key in the X-Backlog-Api-Key header and not in the URL.
C15_KeyInHeaderOnly ==
    \A k \in Posts :
        requests[k].endpoint \in {"/issues", "/issues/:key/comments"} =>
            /\ requests[k].apiKeyInHeader
            /\ ~requests[k].apiKeyInURL

\* a POST of the tracker adapter has been answered with a status
PostAnswered ==
    /\ Op \in {"SendIssue", "SendIssueWithIDs", "PostComment"}
    /\ pc = "done"
    /\ answer.kind = "response"
    /\ answer.resp.neterr = "none"

\* C16: a 2xx status yields success; any other status yields a BacklogError with
\* that status and the code and message of the first entry of a body that parses
\* with at least one entry, else code 0 and the raw body as message.
C16_PostClassification ==
    PostAnswered =>
        IF answer.resp.status >= 200 /\ answer.resp.status < 300
        THEN ret.kind = "nil"
        ELSE /\ ret.kind = "BacklogError"
             /\ Len(ret.errors) = 1
             /\ ret.errors[1].StatusCode = answer.resp.status
             /\ IF answer.body.parses /\ answer.body.errors # <<>>
                THEN /\ ret.errors[1].Code = answer.body.errors[1].code
                     /\ ret.errors[1].Message = answer.body.errors[1].message
                ELSE /\ ret.errors[1].Code = 0
                     /\ ret.errors[1].Message = answer.body.raw

C16_Witness ==
    /\ PostAnswered
    /\ answer.resp.status = 404
    /\ Len(answer.body.errors) = 2
    /\ ret.kind = "BacklogError"

\* C17: an adapter operation hands each of its requests to the transport once:
\* no request occurs twice, there is at most one POST, and after a failure
\* nothing more has been sent.
C17_NoRetry ==
    /\ \A j, k \in DOMAIN requests : j # k => requests[j] # requests[k]
    /\ Cardinality(Posts) <= 1
    /\ Op \in {"PostComment", "GetProjectID", "Slack.SendTextWithHeader", "SendIssueWithIDs"}
          => Len(requests) <= 1
    /\ Op = "SendIssue" => Len(requests) <= 3

C17_Witness ==
    /\ Op = "Slack.SendTextWithHeader"
    /\ pc = "done"
    /\ ret.kind = "transport"
    /\ Len(requests) = 1

\* C19: GetProjectID fails on an empty key without a request; after the query it
\* fails when the query failed, the answer did not parse or the id is zero, and
\* otherwise returns the id of the answer, which is not zero.
C19_ProjectIDLookup ==
    Op = "GetProjectID" =>
        /\ trace[1].args[1] = <<>> =>
              (pc = "done" /\ requests = <<>> /\ ret.kind # "nil" /\ ret.id = 0)
        /\ trace[1].args[1] # <<>> =>
              /\ Len(requests) = 1
              /\ requests[1].method = "GET"
              /\ requests[1].endpoint = "/projects/:key"
              /\ requests[1].arg = trace[1].args[1]
              /\ pc = "done" =>
                    /\ (ret.kind = "nil") <=> (answer.kind = "project" /\ answer.id # 0)
                    /\ ret.kind = "nil" => (ret.id = answer.id /\ ret.id # 0)
                    /\ ret.kind # "nil" => ret.id = 0

C19_Witness ==
    /\ Op = "GetProjectID"
    /\ pc = "done"
    /\ answer.kind = "project"
    /\ answer.id = 0
    /\ ret.kind # "nil"

C22_ZeroNotifiersNil ==
    (Finished /\ Notifiers = <<>>) =>
        /\ trace = <<>>
        /\ requests = <<>>
        /\ allErrors = <<>>
        /\ ret.kind = "nil"
        /\ ret.errors = <<>>

C22_Witness ==
    /\ Finished
    /\ Notifiers = <<>>
    /\ text # <<>>
    /\ backlogProjectID # 0
    /\ ret.kind = "nil"

----------------------------------------------------------------------------
(* Properties of the title/body split of Notify (checked under SpecSplit) *)

\* Notify has split the extracted text
SplitDone == pc \in {"loop", "sending", "done"} /\ ~extractErr

HasNewline(t) == \E k \in DOMAIN t : t[k] = NL

FirstNewline(t) == CHOOSE k \in DOMAIN t : t[k] = NL /\ \A j \in 1..(k - 1) : t[j] # NL

\* what is left of a text without the white space at its ends
Trimmed(t) ==
    LET inner == {k \in DOMAIN t : t[k] \notin {Space, NL}}
    IN  IF inner = {} THEN <<>>
        ELSE SubSeq(t, CHOOSE k \in inner : \A j \in inner : k <= j,
                       CHOOSE k \in inner : \A j \in inner : k >= j)

\* C28 as stated: for a text of two or more lines the summary is the first line,
\* the description is the trimmed remainder after the first newline, and summary,
\* newline and description joined give the text back.
C28_SplitTrimmedRoundTrip ==
    (SplitDone /\ HasNewline(text)) =>
        /\ summary = SubSeq(text, 1, FirstNewline(text) - 1)
        /\ description = Trimmed(SubSeq(text, FirstNewline(text) + 1, Len(text)))
        /\ summary \o <<NL>> \o description = text

\* C28 amended: for a text of two or more lines the summary is the first line,
\* the description is the remainder after the first newline as it is (white
\* space at its ends kept), summary, newline and description joined give the
\* text back, and every send is called with that summary and description.
C28_SplitRoundTripAmended ==
    (SplitDone /\ HasNewline(text)) =>
        /\ summary = SubSeq(text, 1, FirstNewline(text) - 1)
        /\ description = SubSeq(text, FirstNewline(text) + 1, Len(text))
        /\ summary \o <<NL>> \o description = text
        /\ \A k \in Calls : trace[k].a1 = summary /\ trace[k].a2 = description

C28_Witness ==
    /\ SplitDone
    /\ text = <<"a", NL, Space>>
    /\ Calls # {}
    /\ \A k \in Calls : trace[k].a1 = <<"a">> /\ trace[k].a2 = <<Space>>

----------------------------------------------------------------------------
(* Properties of NewBacklogNotifier (checked under SpecNew) *)

Constructed ==
    /\ Op = "NewBacklogNotifier"
    /\ pc = "done"
    /\ trace[1].args[1] # <<>>
    /\ trace[1].args[2] # <<>>

VersionPaths(url) == {k \in DOMAIN url : url[k] = ApiV2}

PlainSpaceURL(url) ==
    \A k \in VersionPaths(url) : \A m \in DOMAIN url : m > k => url[m] = Slash

C21_MissingConfigNoAdapter ==
    Op = "NewBacklogNotifier" =>
        LET spaceURL == trace[1].args[1]
            apiKey == trace[1].args[2]
        IN  /\ (spaceURL = <<>> \/ apiKey = <<>>) =>
                  /\ pc = "done"
                  /\ ret.kind = "config-missing"
                  /\ baseURL = <<>>
                  /\ requests = <<>>
            /\ \A k \in DOMAIN requests :
                  /\ spaceURL # <<>>
                  /\ apiKey # <<>>
                  /\ requests[k].url # <<>>
                  /\ requests[k].apiKey = apiKey
                  /\ requests[k].apiKey # <<>>

C21_Witness ==
    /\ Op = "NewBacklogNotifier"
    /\ pc = "done"
    /\ trace[1].args[1] # <<>>
    /\ trace[1].args[2] = <<>>
    /\ ret.kind = "config-missing"

\* a notifier constructed from the base URL of a notifier constructed before
Renormalized ==
    /\ Op = "NewBacklogNotifier"
    /\ pc = "done"
    /\ Len(trace) = 2
    /\ trace[1].args[2] # <<>>

\* C30: constructing a notifier from the base URL another notifier stores (the
\* space URL and the API key of both non-empty) succeeds and stores that same
\* base URL again: normalize(normalize(u)) = normalize(u).
C30_NormalizeIdempotent ==
    Renormalized =>
        /\ trace[2].args[1] # <<>>
        /\ trace[2].args[2] # <<>>
        /\ ret.kind = "nil"
        /\ baseURL = trace[1].args[1]

C30_Witness ==
    /\ Renormalized
    /\ trace[2].args[1] = <<"h", ApiV2, Slash>>
    /\ trace[1].args[1] = <<"h", ApiV2>>
    /\ baseURL = <<"h", ApiV2>>

----------------------------------------------------------------------------
(* Properties of the SlackNotifier's blocks (checked under SpecSlack) *)

\* a SlackNotifier send has returned
SlackCalled == Op \in {"Slack.SendTextWithHeader", "Slack.SendIssue"} /\ pc = "done"

\* the blocks of the message that was posted
SentBlocks == requests[1].body.blocks

SectionsOf(blocks) == {k \in DOMAIN blocks : blocks[k].type = "section"}
NoticesOf(blocks) == {k \in SectionsOf(blocks) : blocks[k].notice}
ContentOf(blocks) == {k \in SectionsOf(blocks) : ~blocks[k].notice}

\* C23 as stated: for every body longer than maxSectionLength the section text
\* has length exactly maxSectionLength and ends with the truncation suffix.
C23_LongBodyTruncated ==
    (SlackCalled /\ description.len > maxSectionLength) =>
        \E k \in SectionsOf(SentBlocks) :
            /\ SentBlocks[k].len = maxSectionLength
            /\ SentBlocks[k].truncated

\* C23 amended: for every body that is not white space only and whose text after
\* the Markdown substitutions is longer than maxSectionLength bytes, the one
\* section of the message has a text of exactly maxSectionLength bytes that ends
\* with the truncation suffix.
C23_LongBodyTruncatedAmended ==
    (SlackCalled /\ ~description.blank /\ ProcessedLen(description) > maxSectionLength) =>
        /\ Cardinality(SectionsOf(SentBlocks)) = 1
        /\ \A k \in SectionsOf(SentBlocks) :
              /\ SentBlocks[k].len = maxSectionLength
              /\ SentBlocks[k].truncated
              /\ ~SentBlocks[k].notice

C23_Witness ==
    /\ SlackCalled
    /\ ~description.blank
    /\ description.len = maxSectionLength + 1
    /\ description.bolds = 0 /\ description.headings = 0 /\ description.items = 0
    /\ \E k \in SectionsOf(SentBlocks) :
          SentBlocks[k].len = maxSectionLength /\ SentBlocks[k].truncated

\* C24: no section block of a posted message has a text longer than
\* maxSectionLength; a text that would be longer is cut and ends with the
\* truncation suffix, and a text that fits is carried whole.
C24_SectionWithinBudget ==
    SlackCalled =>
        \A k \in SectionsOf(SentBlocks) :
            /\ SentBlocks[k].len <= maxSectionLength
            /\ k \in ContentOf(SentBlocks) =>
                  IF ProcessedLen(description) > maxSectionLength
                  THEN SentBlocks[k].truncated
                  ELSE /\ ~SentBlocks[k].truncated
                       /\ SentBlocks[k].len = ProcessedLen(description)

C24_Witness ==
    /\ SlackCalled
    /\ description.len = maxSectionLength - 1
    /\ ProcessedLen(description) = maxSectionLength + 1
    /\ \E k \in ContentOf(SentBlocks) :
          SentBlocks[k].len = maxSectionLength /\ SentBlocks[k].truncated

\* C25: a posted message never has more than maxBlocks blocks; it holds at most
\* one truncation notice, with no section after it, and a body that is not
\* white space only is either carried by a section or replaced by that notice.
C25_BlocksWithinLimit ==
    SlackCalled =>
        /\ Len(SentBlocks) <= maxBlocks
        /\ Cardinality(NoticesOf(SentBlocks)) <= 1
        /\ \A n \in NoticesOf(SentBlocks) : \A k \in SectionsOf(SentBlocks) : k <= n
        /\ ~description.blank =>
              ContentOf(SentBlocks) # {} \/ NoticesOf(SentBlocks) # {}

C25_Witness ==
    /\ SlackCalled
    /\ ~description.blank
    /\ Len(SentBlocks) = 4
    /\ ContentOf(SentBlocks) = {3}
    /\ NoticesOf(SentBlocks) = {}

\* C29: the block taken off before the footer is appended is always a divider,
\* for every header and body; the posted sequence starts with the header, keeps
\* the section of a body that is not white space only, ends with the footer,
\* and has no divider right in front of the footer.
C29_DroppedIsDivider ==
    SlackCalled =>
        /\ Len(trace) = 2
        /\ trace[2].ev = "dropped"
        /\ trace[2].block.type = "divider"
        /\ Len(SentBlocks) >= 2
        /\ SentBlocks[1].type = "header"
        /\ SentBlocks[1].text = requests[1].body.text
        /\ SentBlocks[Len(SentBlocks)].type = "context"
        /\ SentBlocks[Len(SentBlocks) - 1].type # "divider"
        /\ ~description.blank => SectionsOf(SentBlocks) # {}
        /\ \A k \in DOMAIN SentBlocks :
              /\ SentBlocks[k].type = "header" => k = 1
              /\ SentBlocks[k].type = "context" => k = Len(SentBlocks)

C29_Witness ==
    /\ SlackCalled
    /\ description.blank
    /\ description.len > 0
    /\ trace[2].block.type = "divider"
    /\ Len(SentBlocks) = 2
    /\ SentBlocks[1].type = "header"
    /\ SentBlocks[2].type = "context"

\* C26: SlackNotifier.SendIssue posts, whatever the project, issue type and
\* priority ids are, the one message SendTextWithHeader builds for the header
\* "[ISSUE]" + summary and the description, and returns what that post returned.
C26_SlackIssueIsHeaderText ==
    (Op = "Slack.SendIssue" /\ pc = "done") =>
        /\ Len(requests) = 1
        /\ requests[1].endpoint = "webhook"
        /\ requests[1].body.text = <<"[ISSUE]">> \o summary
        /\ requests[1].body.message = description
        /\ SentBlocks = BlocksOf(<<"[ISSUE]">> \o summary, description)
        /\ ret.kind = (IF answer.resp.neterr # "none" THEN answer.resp.neterr
                       ELSE IF answer.resp.status >= 200 /\ answer.resp.status < 300
                       THEN "nil" ELSE "http")

C26_Witness ==
    /\ Op = "Slack.SendIssue"
    /\ pc = "done"
    /\ trace[1].args = <<-1, 0, 0>>
    /\ summary # <<>>
    /\ ret.kind = "nil"
    /\ Len(requests) = 1

====
